---- MODULE Spec2Model ----
(***************************************************************************)
(* A model of tcpdump's DCCP printer, src/tcpdump/print-dccp.c:            *)
(*   dccp_csum_coverage  (lines 191-201)                                   *)
(*   dccp_basic_hdr_len  (lines 233-237)                                   *)
(*   dccp_print_ack_no   (lines 239-252)                                   *)
(*   dccp_print          (lines 262-428)                                   *)
(*   dccp_print_option   (lines 469-627)                                   *)
(*                                                                         *)
(* Three specifications share the variables:                               *)
(*   Spec     one call of dccp_print, one action per block of statements   *)
(*   OptSpec  one call of dccp_print_option on drawn arguments             *)
(*   CovSpec  one call of dccp_csum_coverage on drawn arguments            *)
(* FairSpec is Spec with weak fairness of the next step: the function is   *)
(* straight-line C on one thread and runs until it returns.                *)
(*                                                                         *)
(* The packet is not stored byte by byte.  The header fields that decide   *)
(* the control flow (X, type, data offset) are inputs fixed in Init; an    *)
(* option's type and length byte, which the loop reads once, are drawn     *)
(* when the loop reads them.  Field values that are only printed (ports,   *)
(* CCVal, service code, sequence and ack numbers, option payloads) and the *)
(* verdict of the external checksum routine are not kept: the output       *)
(* records that the piece was written.  Offsets are relative to bp, the    *)
(* start of the DCCP header.                                               *)
(***************************************************************************)
EXTENDS Integers, Sequences, FiniteSets, TLC

VARIABLES
    pc,            \* position in the function being run
    length,        \* u_int length: claimed length of the DCCP packet
    caplen,        \* captured bytes available from bp (ndo_snapend - bp)
    qflag,         \* ndo->ndo_qflag
    vflag,         \* ndo->ndo_vflag
    xbit,          \* DCCPH_X(dh)
    ptype,         \* DCCPH_TYPE(dh)
    doff,          \* dh->dccph_doff
    fixed_hdrlen,  \* u_int fixed_hdrlen
    hlen,          \* u_int hlen
    cp,            \* cp - bp: the options cursor
    optlen,        \* u_int optlen of dccp_print / return of dccp_print_option
    out,           \* what ND_PRINT and nd_print_invalid have written, in order
    readHi,        \* history: largest (offset + size) of a packet read so far
    checked,       \* history: largest n with "length >= n" established so far
    budget0,       \* history: hlen on entry to the options loop (0: not entered)
    consumed,      \* history: sum of the optlen values the decoder returned
    iters,         \* history: number of dccp_print_option calls in the loop
    lastEff,       \* history: option_length of the last option tried (0: not read)
    lastHlen,      \* history: remaining budget when that option was tried
    option,        \* OptSpec: the option's type byte
    optbyte,       \* OptSpec: the byte after it
    cscov,         \* CovSpec: DCCPH_CSCOV(dh)
    cov            \* CovSpec: return of dccp_csum_coverage

vars == << pc, length, caplen, qflag, vflag, xbit, ptype, doff, fixed_hdrlen,
           hlen, cp, optlen, out, readHi, checked, budget0, consumed, iters,
           lastEff, lastHlen, option, optbyte, cscov, cov >>

(***************************************************************************)
(* Bounds of the model.                                                    *)
(***************************************************************************)
MaxLength == 28    \* Spec: length ranges over 0..MaxLength, see Lengths
MaxCapSteps == 2   \* Spec: caplen ranges over 0, 16, .., 16*MaxCapSteps
MaxDoff == 5       \* Spec: dccph_doff ranges over 0..MaxDoff
MaxPktType == 10   \* Spec: the 4-bit packet type ranges over 0..MaxPktType
MaxLoopLen == 4    \* Spec: length bytes drawn in the loop: 0..MaxLoopLen, 6, 255
MaxOptLen == 11    \* OptSpec: length bytes drawn: 0..MaxOptLen and 255
MaxBudget == 11    \* OptSpec: hlen ranges over 1..MaxBudget and 255
MaxCovLen == 16    \* CovSpec: len ranges over 0..MaxCovLen and around LargestCov

(***************************************************************************)
(* Program constants.                                                      *)
(***************************************************************************)
Huge == 2147483647              \* stands for every u_int value of 2^31 and more
SizeofDccpHdr == 12             \* sizeof(struct dccp_hdr)
SizeofDccpHdrExt == 16          \* sizeof(struct dccp_hdr_ext)
DCCP_PKT_REQUEST == 0
DCCP_PKT_RESPONSE == 1
DCCP_PKT_DATA == 2
DCCP_PKT_ACK == 3
DCCP_PKT_DATAACK == 4
DCCP_PKT_CLOSEREQ == 5
DCCP_PKT_CLOSE == 6
DCCP_PKT_RESET == 7
DCCP_PKT_SYNC == 8
DCCP_PKT_SYNCACK == 9
DCCP_OPTION_PADDING == 0
DCCP_OPTION_MANDATORY == 1
DCCP_OPTION_SLOW_RECEIVER == 2
DCCP_OPTION_CHANGE_L == 32
DCCP_OPTION_CONFIRM_L == 33
DCCP_OPTION_CHANGE_R == 34
DCCP_OPTION_CONFIRM_R == 35
DCCP_OPTION_INIT_COOKIE == 36
DCCP_OPTION_NDP_COUNT == 37
DCCP_OPTION_ACK_VECTOR_NONCE_0 == 38
DCCP_OPTION_ACK_VECTOR_NONCE_1 == 39
DCCP_OPTION_DATA_DROPPED == 40
DCCP_OPTION_TIMESTAMP == 41
DCCP_OPTION_TIMESTAMP_ECHO == 42
DCCP_OPTION_ELAPSED_TIME == 43
DCCP_OPTION_DATA_CHECKSUM == 44

Max(a, b) == IF a >= b THEN a ELSE b
Min(a, b) == IF a <= b THEN a ELSE b

\* One piece of output: k names it, v is the number printed (0 when none matters).
Tok(k, v) == [k |-> k, v |-> v]

\* The bounds check behind GET_U_1, GET_BE_U_n, ND_TCHECK_* and ND_TTEST_LEN:
\* n bytes at offset off lie inside the cap captured bytes.
Captured(off, n, cap) == off + n <= cap

(***************************************************************************)
(* dccp_csum_coverage, lines 191-201.                                      *)
(*   cov = (GET_U_1(dh->dccph_doff) + DCCPH_CSCOV(dh) - 1) * sizeof(uint32_t)*)
(* The sum w is formed in int; the product is unsigned and 32 bits wide, so *)
(* a negative w wraps to 2^32 + 4w.  Every value of 2^31 and more is        *)
(* represented by Huge, which is above every length of the model.           *)
(***************************************************************************)
UMul4(w) == IF w < 0 \/ w > (Huge - 3) \div 4 THEN Huge ELSE 4 * w

dccp_csum_coverage_nozero(doff_, cscov_, len) ==
    LET c == UMul4(doff_ + cscov_ - 1)
    IN  IF c > len THEN len ELSE c

dccp_csum_coverage(doff_, cscov_, len) ==
    IF cscov_ = 0
    THEN len
    ELSE LET c == UMul4(doff_ + cscov_ - 1)
         IN  IF c > len THEN len ELSE c

(***************************************************************************)
(* dccp_basic_hdr_len, lines 233-237.                                      *)
(***************************************************************************)
dccp_basic_hdr_len(x) == IF x # 0 THEN SizeofDccpHdrExt ELSE SizeofDccpHdr

(***************************************************************************)
(* dccp_print_option, lines 469-627.                                       *)
(***************************************************************************)
\* The single-byte reads of a "for (i = 0; i < optlen - k; i++) GET_U_1(bp + k + i)"
\* loop: offsets from .. to-1.
ByteReads(from, to) == [i \in 1..(to - from) |-> << from + i - 1, 1 >>]

\* The switch of lines 488-622 as a predicate: the option's length passes the
\* checks of its type (and the type is one the switch knows).
OptionLenOk_min(opt, len) ==
    IF opt >= 128 THEN TRUE
    ELSE CASE opt \in {DCCP_OPTION_PADDING, DCCP_OPTION_MANDATORY,
                       DCCP_OPTION_SLOW_RECEIVER} -> TRUE
           [] opt \in {DCCP_OPTION_CHANGE_L, DCCP_OPTION_CHANGE_R} -> ~(len < 4)
           [] opt \in {DCCP_OPTION_CONFIRM_L, DCCP_OPTION_CONFIRM_R} -> ~(len < 3)
           [] opt = DCCP_OPTION_INIT_COOKIE -> ~(len < 3)
           [] opt = DCCP_OPTION_NDP_COUNT -> ~(len < 3) /\ ~(len > 8)
           [] opt \in {DCCP_OPTION_ACK_VECTOR_NONCE_0,
                       DCCP_OPTION_ACK_VECTOR_NONCE_1} -> ~(len < 3)
           [] opt = DCCP_OPTION_DATA_DROPPED -> ~(len < 3)
           [] opt = DCCP_OPTION_TIMESTAMP -> ~(len < 6)
           [] opt = DCCP_OPTION_TIMESTAMP_ECHO -> len \in {6, 8, 10}
           [] opt = DCCP_OPTION_ELAPSED_TIME -> len \in {4, 6}
           [] opt = DCCP_OPTION_DATA_CHECKSUM -> ~(len # 6)
           [] OTHER -> FALSE

OptionLenOk(opt, len) ==
    IF opt >= 128 THEN TRUE
    ELSE CASE opt \in {DCCP_OPTION_PADDING, DCCP_OPTION_MANDATORY,
                       DCCP_OPTION_SLOW_RECEIVER} -> TRUE
           [] opt \in {DCCP_OPTION_CHANGE_L, DCCP_OPTION_CHANGE_R} -> ~(len < 4)
           [] opt \in {DCCP_OPTION_CONFIRM_L, DCCP_OPTION_CONFIRM_R} -> ~(len < 3)
           [] opt = DCCP_OPTION_INIT_COOKIE -> ~(len < 3)
           [] opt = DCCP_OPTION_NDP_COUNT -> ~(len < 3) /\ ~(len > 8)
           [] opt \in {DCCP_OPTION_ACK_VECTOR_NONCE_0,
                       DCCP_OPTION_ACK_VECTOR_NONCE_1} -> ~(len < 3)
           [] opt = DCCP_OPTION_DATA_DROPPED -> ~(len < 3)
           [] opt = DCCP_OPTION_TIMESTAMP -> ~(len # 6)
           [] opt = DCCP_OPTION_TIMESTAMP_ECHO -> len \in {6, 8, 10}
           [] opt = DCCP_OPTION_ELAPSED_TIME -> len \in {4, 6}
           [] opt = DCCP_OPTION_DATA_CHECKSUM -> ~(len # 6)
           [] OTHER -> FALSE

\* The payload reads of lines 488-622 for an option that passed OptionLenOk,
\* in program order, as << offset from bp, size >>.
PayloadReads(opt, len) ==
    IF opt >= 128
    THEN CASE len = 4 -> << <<2, 2>> >>
           [] len = 6 -> << <<2, 4>> >>
           [] OTHER   -> ByteReads(2, len)
    ELSE CASE opt \in {DCCP_OPTION_PADDING, DCCP_OPTION_MANDATORY,
                       DCCP_OPTION_SLOW_RECEIVER} -> << >>
           [] opt \in {DCCP_OPTION_CHANGE_L, DCCP_OPTION_CHANGE_R,
                       DCCP_OPTION_CONFIRM_L, DCCP_OPTION_CONFIRM_R} ->
                  << <<2, 1>> >> \o ByteReads(3, len)
           [] opt \in {DCCP_OPTION_INIT_COOKIE, DCCP_OPTION_NDP_COUNT,
                       DCCP_OPTION_ACK_VECTOR_NONCE_0,
                       DCCP_OPTION_ACK_VECTOR_NONCE_1,
                       DCCP_OPTION_DATA_DROPPED,
                       DCCP_OPTION_DATA_CHECKSUM} -> ByteReads(2, len)
           [] opt = DCCP_OPTION_TIMESTAMP -> << <<2, 4>> >>
           [] opt = DCCP_OPTION_TIMESTAMP_ECHO ->
                  CASE len = 6 -> << <<2, 4>> >>
                    [] len = 8 -> << <<2, 4>>, <<6, 2>> >>
                    [] OTHER   -> << <<2, 4>>, <<6, 4>> >>
           [] opt = DCCP_OPTION_ELAPSED_TIME ->
                  CASE len = 4 -> << <<2, 2>> >>
                    [] OTHER   -> << <<2, 4>> >>
           [] OTHER -> << >>

\* End offset of the reads of rs that are captured, and whether all of them are.
\* The reads are at increasing offsets, so the captured ones are a prefix.
ReadsEnd(rs, avail, from) ==
    LET ends == {rs[i][1] + rs[i][2] : i \in 1..Len(rs)}
        good == {e \in ends : e <= avail}
    IN  IF good = {} THEN from
        ELSE Max(from, CHOOSE e \in good : \A f \in good : f <= e)

ReadsAllCaptured(rs, avail) ==
    \A i \in 1..Len(rs) : Captured(rs[i][1], rs[i][2], avail)

\* What one call does: ret is the value returned (0: the invalid label),
\* rd the end offset of the bytes it read from bp on, printed whether it
\* wrote anything.
OptResult(ret, rd, printed) == [ret |-> ret, rd |-> rd, printed |-> printed]

\* Lines 480-484: the length the loop is told to skip.
EffectiveLen(opt, lenbyte) == IF opt >= 32 THEN lenbyte ELSE 1

\* ND_ICHECKMSG_U("remaining length", hlen, <, optlen) of line 486 passes.
BudgetOk_off(hl, len) == TRUE

BudgetOk(hl, len) == ~(hl < len)

\* A read of bytes that were not captured: the decoding of the option fails.
TruncatedReturn(rd, printed) == OptResult(0, rd, printed)

dccp_print_option(opt, lenbyte, hl, avail) ==
    IF ~Captured(0, 1, avail)                      \* GET_U_1(bp), line 474
    THEN TruncatedReturn(0, FALSE)
    ELSE IF opt >= 32 /\ ~Captured(1, 1, avail)    \* GET_U_1(bp + 1), line 481
    THEN TruncatedReturn(1, TRUE)
    ELSE LET len == EffectiveLen(opt, lenbyte)
             rd0 == IF opt >= 32 THEN 2 ELSE 1
             rs  == PayloadReads(opt, len)
         IN  IF opt >= 32 /\ len < 2               \* line 482
             THEN OptResult(0, rd0, TRUE)
             ELSE IF ~BudgetOk(hl, len)            \* line 486
             THEN OptResult(0, rd0, TRUE)
             ELSE IF ~OptionLenOk(opt, len)        \* lines 488-622
             THEN OptResult(0, rd0, TRUE)
             ELSE IF ~ReadsAllCaptured(rs, avail)
             THEN TruncatedReturn(ReadsEnd(rs, avail, rd0), TRUE)
             ELSE OptResult(len, ReadsEnd(rs, avail, rd0), TRUE)

(***************************************************************************)
(* dccp_print, lines 262-428: Spec.                                        *)
(*                                                                         *)
(* pc: Start -> Generic -> Quiet -> Type -> Ack -> Seq -> OptionsLoop, and  *)
(* the ends QuietExit (return of line 311), Return (line 402), Done (line   *)
(* 425) and Invalid (label invalid, lines 426-427).                         *)
(*                                                                         *)
(* ND_ICHECK_U(a, op, b) jumps to invalid when "a op b" holds.  A read or   *)
(* an ND_TCHECK_* of bytes that were not captured ends the decoding as a    *)
(* truncation, which the specification renders with the invalid marker.     *)
(***************************************************************************)
PktTypes_more == 0..10

\* enum dccp_pkt_type: the cases of the switch of line 338.
PktTypes == 0..9

\* The "fixed_hdrlen += n" of each case of the switch, lines 338-395.
ExtLen_short(t) ==
    CASE t = DCCP_PKT_REQUEST -> 4
      [] t \in {DCCP_PKT_RESPONSE, DCCP_PKT_ACK, DCCP_PKT_DATAACK,
                DCCP_PKT_CLOSEREQ, DCCP_PKT_CLOSE, DCCP_PKT_SYNC,
                DCCP_PKT_SYNCACK} -> 8
      [] t = DCCP_PKT_RESET -> 12
      [] OTHER -> 0

ExtLen(t) ==
    CASE t = DCCP_PKT_REQUEST -> 4
      [] t \in {DCCP_PKT_RESPONSE, DCCP_PKT_RESET} -> 12
      [] t \in {DCCP_PKT_ACK, DCCP_PKT_DATAACK, DCCP_PKT_CLOSEREQ,
                DCCP_PKT_CLOSE, DCCP_PKT_SYNC, DCCP_PKT_SYNCACK} -> 8
      [] OTHER -> 0

\* The field a case of the switch prints, as << offset, size >> (size 0: none):
\* dccph_req_service, dccph_resp_service (after the 8-byte ack), dccph_reset_code.
ExtFieldRead(t, base) ==
    CASE t = DCCP_PKT_REQUEST  -> << base, 4 >>
      [] t = DCCP_PKT_RESPONSE -> << base + 8, 4 >>
      [] t = DCCP_PKT_RESET    -> << base + 8, 1 >>
      [] OTHER -> << 0, 0 >>

\* The bytes that must be captured for that case: ND_TCHECK_SIZE(dhr) covers
\* the whole struct dccp_hdr_reset, the other cases only the field read.
ExtCaptureNeeded(t, base) ==
    IF t = DCCP_PKT_RESET THEN << base, 12 >> ELSE ExtFieldRead(t, base)

\* dccp_print_ack_no, lines 239-252: the read of the acknowledgement number.
AckNoRead(x) ==
    LET ackp == dccp_basic_hdr_len(x)
    IN  IF x # 0 THEN << ackp + 2, 6 >> ELSE << ackp + 1, 3 >>

\* dccp_seqno, lines 217-231: the read of the sequence number.
SeqNoRead(x) == IF x # 0 THEN << 10, 6 >> ELSE << 9, 3 >>

\* ND_ICHECK_U(length, <, hlen) of line 309 passes.
QuietLengthOk_off(len, hl) == TRUE

QuietLengthOk(len, hl) == ~(len < hl)

\* Lines 415-418: what the loop does with the decoder's return value.
LoopBranch_break(ret, hl) ==
    IF ret = 0 \/ hl <= ret THEN "break" ELSE "continue"

LoopBranch(ret, hl) ==
    IF ret = 0 THEN "invalid"
    ELSE IF hl <= ret THEN "break"
    ELSE "continue"

\* Line 419: hlen -= optlen.
LoopBudget_stuck(hl, ret) == hl

LoopBudget(hl, ret) == hl - ret

\* Label invalid, lines 426-427: nd_print_invalid(ndo), and the function ends.
GotoInvalid(o) ==
    /\ pc' = "Invalid"
    /\ out' = Append(o, Tok("invalid", 0))

\* A read or an ND_TCHECK_* of bytes that were not captured: the decoding
\* stops as a truncation, rendered with the invalid marker.
Truncated(o) == GotoInvalid(o)

inputs == << length, caplen, qflag, vflag, xbit, ptype, doff >>
unused == << option, optbyte, cscov, cov >>
loopvars == << cp, optlen, budget0, consumed, iters, lastEff, lastHlen >>

\* The claimed lengths drawn: the code compares length with multiples of 4
\* only (12, 16, .. and 4 * doff), so both sides of each multiple.
Lengths == {n \in 0..MaxLength : n % 4 \in {0, 3}}

Init ==
    /\ pc = "Start"
    /\ length \in Lengths
    /\ caplen \in {16 * w : w \in 0..MaxCapSteps}
    /\ qflag \in {0, 1}
    /\ vflag \in 0..2
    /\ xbit \in {0, 1}
    /\ ptype \in 0..MaxPktType
    /\ doff \in 0..MaxDoff
    /\ fixed_hdrlen = 0 /\ hlen = 0 /\ cp = 0 /\ optlen = 0 /\ out = << >>
    /\ readHi = 0 /\ checked = 0 /\ budget0 = 0 /\ consumed = 0
    /\ iters = 0 /\ lastEff = 0 /\ lastHlen = 0
    /\ option = 0 /\ optbyte = 0 /\ cscov = 0 /\ cov = 0

\* Lines 284-285: ND_ICHECK_ZU(length, <, sizeof(struct dccp_hdr)).
CheckLength ==
    /\ pc = "Start"
    /\ IF length < SizeofDccpHdr
       THEN GotoInvalid(out) /\ UNCHANGED checked
       ELSE pc' = "Generic" /\ checked' = SizeofDccpHdr /\ UNCHANGED out
    /\ UNCHANGED << inputs, unused, loopvars, fixed_hdrlen, hlen, readHi >>

\* Lines 287-306: the generic header.  dccp_basic_hdr_len reads the X bit
\* (offset 8); then the length and capture checks, the ports, the data offset.
GenericHeader ==
    /\ pc = "Generic"
    /\ LET fh == dccp_basic_hdr_len(xbit)
       IN  IF ~Captured(8, 1, caplen)
           THEN /\ Truncated(out)
                /\ UNCHANGED << fixed_hdrlen, hlen, readHi, checked >>
           ELSE IF length < fh
           THEN /\ GotoInvalid(out)
                /\ fixed_hdrlen' = fh
                /\ readHi' = Max(readHi, 9)
                /\ UNCHANGED << hlen, checked >>
           ELSE IF ~Captured(0, fh, caplen)
           THEN /\ Truncated(out)
                /\ fixed_hdrlen' = fh
                /\ checked' = Max(checked, fh)
                /\ readHi' = Max(readHi, 9)
                /\ UNCHANGED hlen
           ELSE /\ pc' = "Quiet"
                /\ fixed_hdrlen' = fh
                /\ checked' = Max(checked, fh)
                /\ readHi' = Max(readHi, 9)
                /\ hlen' = doff * 4
                /\ out' = out \o << Tok("addr_ports", 0), Tok("proto", 0) >>
    /\ UNCHANGED << inputs, unused, loopvars >>

\* Lines 308-333: the quiet exit, and otherwise the verbose part of the
\* generic header.  CCVal/CsCov (offset 5) and the checksum (offsets 6-7) lie
\* in the captured generic header; the checksum is computed by
\* nextproto4_cksum/nextproto6_cksum over the coverage dccp_csum_coverage
\* returns, and its verdict is one piece of output.
QuietOrVerbose ==
    /\ pc = "Quiet"
    /\ IF qflag # 0
       THEN IF ~QuietLengthOk(length, hlen)
            THEN GotoInvalid(out)
            ELSE /\ pc' = "QuietExit"
                 /\ out' = Append(out, Tok("payload_len", length - hlen))
       ELSE /\ pc' = "Type"
            /\ out' = IF vflag = 0 THEN out
                      ELSE IF Captured(0, length, caplen)
                      THEN out \o << Tok("ccval_cscov", 0), Tok("cksum", 0) >>
                      ELSE Append(out, Tok("ccval_cscov", 0))
    /\ UNCHANGED << inputs, unused, loopvars, fixed_hdrlen, hlen, readHi,
                    checked >>

\* Lines 335-395: the packet type and its extension header.
TypeExtension ==
    /\ pc = "Type"
    /\ LET base == fixed_hdrlen
           fh   == base + ExtLen(ptype)
           rd   == ExtFieldRead(ptype, base)
           need == ExtCaptureNeeded(ptype, base)
           out1 == Append(out, Tok("type", ptype))
       IN  IF ptype \notin PktTypes
           THEN /\ GotoInvalid(out1)
                /\ UNCHANGED << fixed_hdrlen, readHi, checked >>
           ELSE IF ptype = DCCP_PKT_DATA
           THEN /\ pc' = "Ack"
                /\ out' = out1
                /\ UNCHANGED << fixed_hdrlen, readHi, checked >>
           ELSE IF length < fh
           THEN /\ GotoInvalid(out1)
                /\ fixed_hdrlen' = fh
                /\ UNCHANGED << readHi, checked >>
           ELSE IF ~Captured(need[1], need[2], caplen)
           THEN /\ Truncated(out1)
                /\ fixed_hdrlen' = fh
                /\ checked' = Max(checked, fh)
                /\ UNCHANGED readHi
           ELSE /\ pc' = "Ack"
                /\ fixed_hdrlen' = fh
                /\ checked' = Max(checked, fh)
                /\ readHi' = IF rd[2] = 0 THEN readHi
                             ELSE Max(readHi, rd[1] + rd[2])
                /\ out' = IF rd[2] = 0 THEN out1
                          ELSE Append(out1, Tok("ext_field", 0))
    /\ UNCHANGED << inputs, unused, loopvars, hlen >>

\* Lines 397-399: dccp_print_ack_no for every type but Data and Request.
PrintAckNo ==
    /\ pc = "Ack"
    /\ LET rd == AckNoRead(xbit)
       IN  IF ptype \in {DCCP_PKT_DATA, DCCP_PKT_REQUEST}
           THEN pc' = "Seq" /\ UNCHANGED << out, readHi >>
           ELSE IF ~Captured(rd[1], rd[2], caplen)
           THEN Truncated(out) /\ UNCHANGED readHi
           ELSE /\ pc' = "Seq"
                /\ readHi' = Max(readHi, rd[1] + rd[2])
                /\ out' = Append(out, Tok("ack", 0))
    /\ UNCHANGED << inputs, unused, loopvars, fixed_hdrlen, hlen, checked >>

\* Lines 401-412 and 425: the return below verbose level 2, the sequence
\* number (inside the captured generic header), and the entry to the options
\* loop when the data offset reaches past the fixed header.
SeqAndOptions ==
    /\ pc = "Seq"
    /\ LET rd == SeqNoRead(xbit)
       IN  IF vflag < 2
           THEN /\ pc' = "Return"
                /\ UNCHANGED << out, readHi, hlen, cp, budget0 >>
           ELSE IF hlen > fixed_hdrlen
           THEN /\ pc' = "OptionsLoop"
                /\ readHi' = Max(readHi, rd[1] + rd[2])
                /\ cp' = fixed_hdrlen
                /\ hlen' = hlen - fixed_hdrlen
                /\ budget0' = hlen - fixed_hdrlen
                /\ out' = out \o << Tok("seq", 0), Tok("<", 0) >>
           ELSE /\ pc' = "Done"
                /\ readHi' = Max(readHi, rd[1] + rd[2])
                /\ out' = Append(out, Tok("seq", 0))
                /\ UNCHANGED << hlen, cp, budget0 >>
    /\ UNCHANGED << inputs, unused, fixed_hdrlen, checked, optlen, consumed,
                    iters, lastEff, lastHlen >>

\* The option bytes the loop of Spec draws: a one-byte option, an unknown
\* type, options with a minimum and with an exact length, a CCID option.
LoopOptionTypes == {DCCP_OPTION_PADDING, 3, DCCP_OPTION_CHANGE_L,
                    DCCP_OPTION_CONFIRM_L, DCCP_OPTION_TIMESTAMP,
                    DCCP_OPTION_ELAPSED_TIME, 128}
LoopLenBytes == (0..MaxLoopLen) \cup {6, 255}

\* << type byte, length byte >>: the length byte is read for types >= 32 only
\* (line 481), so it is drawn for those only.
LoopOptions ==
    {<< o, 0 >> : o \in {t \in LoopOptionTypes : t < 32}}
        \cup ({t \in LoopOptionTypes : t >= 32} \X LoopLenBytes)

\* Lines 413-423: one iteration of the options loop.
OptionStep ==
    /\ pc = "OptionsLoop"
    /\ \E ob \in LoopOptions :
         LET o     == ob[1]
             b     == ob[2]
             avail == IF caplen > cp THEN caplen - cp ELSE 0
             r     == dccp_print_option(o, b, hlen, avail)
             out1  == IF r.printed THEN Append(out, Tok("option", 0)) ELSE out
             br    == LoopBranch(r.ret, hlen)
         IN  /\ optlen' = r.ret
             /\ iters' = iters + 1
             /\ lastEff' = IF r.rd >= (IF o >= 32 THEN 2 ELSE 1)
                           THEN EffectiveLen(o, b)
                           ELSE 0
             /\ lastHlen' = hlen
             /\ consumed' = consumed + r.ret
             /\ readHi' = IF r.rd = 0 THEN readHi ELSE Max(readHi, cp + r.rd)
             /\ IF br = "invalid"
                THEN GotoInvalid(out1) /\ UNCHANGED << hlen, cp >>
                ELSE IF br = "break"
                THEN /\ pc' = "Done"
                     /\ out' = Append(out1, Tok(">", 0))
                     /\ UNCHANGED << hlen, cp >>
                ELSE /\ pc' = "OptionsLoop"
                     /\ hlen' = LoopBudget(hlen, r.ret)
                     /\ cp' = cp + r.ret
                     /\ out' = Append(out1, Tok(", ", 0))
    /\ UNCHANGED << inputs, unused, fixed_hdrlen, checked, budget0 >>

Next ==
    \/ CheckLength
    \/ GenericHeader
    \/ QuietOrVerbose
    \/ TypeExtension
    \/ PrintAckNo
    \/ SeqAndOptions
    \/ OptionStep

Spec == Init /\ [][Next]_vars

\* dccp_print is straight-line code on one thread: a step that can be taken is.
FairSpec == Spec /\ WF_vars(Next)

Terminal == {"QuietExit", "Return", "Done", "Invalid"}

(***************************************************************************)
(* Properties of dccp_print (Spec, FairSpec).                              *)
(***************************************************************************)
Kinds(o) == {o[i].k : i \in 1..Len(o)}
InvalidCount(o) == Cardinality({i \in 1..Len(o) : o[i].k = "invalid"})
HeaderCovered ==
    /\ length >= dccp_basic_hdr_len(xbit)
    /\ Captured(0, dccp_basic_hdr_len(xbit), caplen)

\* C2: the options loop starts with the budget data_offset*4 - fixed header
\* length; cursor + budget stays data_offset*4; the loop ends in Done only
\* with the returned lengths summing to the initial budget; an option longer
\* than the budget left at its start ends the loop in Invalid.
C2_LoopBudget ==
    /\ budget0 > 0 =>
          /\ budget0 = doff * 4 - fixed_hdrlen
          /\ cp + hlen = doff * 4
    /\ (pc = "Done" /\ budget0 > 0) => consumed = budget0
    /\ (iters > 0 /\ lastEff > lastHlen) => pc = "Invalid"

\* The loop decoded at least two options and ended in Done.
C2_Witness ==
    /\ pc = "Done" /\ iters >= 2
    /\ budget0 > 0 /\ consumed = budget0

\* C3: one call of dccp_print terminates; each loop iteration that continues
\* returned at least 1 byte, strictly decreases the budget and advances the
\* cursor; the number of iterations is at most the initial budget.
C3_Terminates ==
    /\ <>(pc \in Terminal)
    /\ [][(pc = "OptionsLoop" /\ pc' = "OptionsLoop") =>
             (optlen' >= 1 /\ hlen' < hlen /\ hlen' >= 1 /\ cp' > cp)]_vars
    /\ [](iters <= budget0 /\ budget0 <= 255 * 4)

\* The loop ran three times and the call ended.
C3_Witness ==
    /\ pc \in {"Done", "Invalid"} /\ iters >= 3

\* C4 (as claimed): quiet mode with the generic header covered always ends in
\* QuietExit with the payload byte count, for every data offset and length.
C4_QuietAlwaysExits ==
    (pc \in Terminal /\ qflag # 0 /\ HeaderCovered) =>
        /\ pc = "QuietExit"
        /\ out[Len(out)] = Tok("payload_len", length - doff * 4)
        /\ iters = 0

\* C4 (amended): quiet mode with the generic header covered never calls the
\* option decoder; it ends in QuietExit with the payload byte count
\* length - data_offset*4 and no invalid marker when length >= data_offset*4,
\* and in Invalid when length < data_offset*4.
C4_QuietExit ==
    (pc \in Terminal /\ qflag # 0 /\ HeaderCovered) =>
        /\ iters = 0
        /\ IF length >= doff * 4
           THEN /\ pc = "QuietExit"
                /\ out[Len(out)] = Tok("payload_len", length - doff * 4)
                /\ "invalid" \notin Kinds(out)
           ELSE /\ pc = "Invalid"
                /\ "payload_len" \notin Kinds(out)

\* Quiet mode printed a payload of 8 bytes after a 20-byte header.
C4_Witness ==
    /\ pc = "QuietExit" /\ qflag # 0
    /\ length = 28 /\ doff = 5
    /\ out[Len(out)] = Tok("payload_len", 8)

\* C5 (as claimed): a packet type outside 0..9 ends in Invalid with the
\* marker under every configuration, quiet or not.
C5_UnknownTypeInvalid ==
    (pc \in Terminal /\ ptype \notin 0..9 /\ HeaderCovered) =>
        /\ pc = "Invalid"
        /\ out[Len(out)].k = "invalid"

\* C5 (amended): when quiet mode is not requested, a packet type outside
\* 0..9 ends in Invalid with the marker, at every verbose level.
C5_UnknownTypeInvalidNotQuiet ==
    (pc \in Terminal /\ qflag = 0 /\ ptype \notin 0..9 /\ HeaderCovered) =>
        /\ pc = "Invalid"
        /\ out[Len(out)].k = "invalid"
        /\ out[Len(out) - 1] = Tok("type", ptype)

\* An unknown type was printed and then rejected at verbose level 1.
C5_Witness ==
    /\ pc = "Invalid" /\ qflag = 0 /\ vflag = 1
    /\ ptype = 10 /\ HeaderCovered
    /\ "type" \in Kinds(out)

C8_Ext(t) ==
    CASE t = 2 -> 0
      [] t = 0 -> 4
      [] t \in {1, 7} -> 12
      [] t \in {3, 4, 5, 6, 8, 9} -> 8
      [] OTHER -> 0

\* C8: before the options loop every packet byte read lies below a length
\* already checked against the claimed length: nothing is read when
\* length < 12; the ports are read only with length >= 12 (16 with X set);
\* the extension fields and the acknowledgement number only with
\* length >= generic header + extension size of the type.
C8_ReadsChecked ==
    /\ iters = 0 => (readHi <= checked /\ checked <= length)
    /\ (pc \in Terminal /\ length < 12) => (pc = "Invalid" /\ readHi = 0)
    /\ "addr_ports" \in Kinds(out) =>
          length >= (IF xbit = 1 THEN 16 ELSE 12)
    /\ ({"ext_field", "ack"} \cap Kinds(out) # {}) =>
          /\ ptype \in 0..9
          /\ length >= (IF xbit = 1 THEN 16 ELSE 12) + C8_Ext(ptype)
          /\ iters = 0 => readHi <= (IF xbit = 1 THEN 16 ELSE 12) + C8_Ext(ptype)

\* A Response with a 48-bit sequence number: service code and ack read, the
\* last byte read is byte 27 of a 28-byte packet.
C8_Witness ==
    /\ ptype = 1 /\ xbit = 1 /\ length = 28
    /\ {"ext_field", "ack"} \subseteq Kinds(out)
    /\ iters = 0 /\ readHi = 28

\* C10 (as claimed): in the options loop the options area lies inside the
\* packet, data_offset*4 <= claimed length.
C10_OptionsInsideLength ==
    pc = "OptionsLoop" => doff * 4 <= length

(***************************************************************************)
(* OptSpec: one call of dccp_print_option(ndo, bp, hlen) with bp at offset  *)
(* 0, on every option type, a range of length bytes and budgets, with the   *)
(* capture ending before, inside, at the end of and after the budget.       *)
(***************************************************************************)
OptionTypes == 0..255
LenBytes == (0..MaxOptLen) \cup {255}

Idle ==
    /\ qflag = 0 /\ vflag = 0 /\ xbit = 0 /\ ptype = 0
    /\ fixed_hdrlen = 0 /\ cp = 0 /\ optlen = 0 /\ out = << >>
    /\ readHi = 0 /\ checked = 0 /\ budget0 = 0 /\ consumed = 0
    /\ iters = 0 /\ lastEff = 0 /\ lastHlen = 0

OptInit ==
    /\ Idle
    /\ pc = "opt_call"
    /\ option \in OptionTypes
    /\ optbyte \in LenBytes
    /\ hlen \in (1..MaxBudget) \cup {255}
    /\ caplen \in {1, hlen + 1}
    /\ length = 0 /\ doff = 0 /\ cscov = 0 /\ cov = 0

OptionCall ==
    /\ pc = "opt_call"
    /\ LET r == dccp_print_option(option, optbyte, hlen, caplen)
       IN  /\ optlen' = r.ret
           /\ readHi' = r.rd
           /\ out' = IF r.printed THEN << Tok("option", option) >> ELSE << >>
    /\ pc' = "opt_ret"
    /\ UNCHANGED << length, caplen, qflag, vflag, xbit, ptype, doff,
                    fixed_hdrlen, hlen, cp, checked, budget0, consumed, iters,
                    lastEff, lastHlen, option, optbyte, cscov, cov >>

OptNext == OptionCall

OptSpec == OptInit /\ [][OptNext]_vars

(***************************************************************************)
(* CovSpec: one call of dccp_csum_coverage(ndo, dh, len) on every data      *)
(* offset and CsCov, and a range of claimed lengths.                        *)
(***************************************************************************)
\* The largest coverage a header can state: data offset 255, CsCov 15.
LargestCov == (255 + 15 - 1) * 4

CovInit ==
    /\ Idle
    /\ pc = "cov_call"
    /\ doff \in 0..255
    /\ cscov \in 0..15
    /\ length \in (0..MaxCovLen) \cup {LargestCov - 1, LargestCov, LargestCov + 1}
    /\ caplen = 0 /\ hlen = 0 /\ option = 0 /\ optbyte = 0 /\ cov = 0

CoverageCall ==
    /\ pc = "cov_call"
    /\ cov' = dccp_csum_coverage(doff, cscov, length)
    /\ pc' = "cov_ret"
    /\ UNCHANGED << length, caplen, qflag, vflag, xbit, ptype, doff,
                    fixed_hdrlen, hlen, cp, optlen, out, readHi, checked,
                    budget0, consumed, iters, lastEff, lastHlen, option,
                    optbyte, cscov >>

CovNext == CoverageCall

CovSpec == CovInit /\ [][CovNext]_vars

(***************************************************************************)
(* Properties of dccp_print_option (OptSpec) and dccp_csum_coverage         *)
(* (CovSpec).                                                              *)
(***************************************************************************)
\* The per-type length rule as the specification words it.
C1_TypeRule(t, l) ==
    \/ t \in 0..2
    \/ t \in {32, 34} /\ l >= 4
    \/ t \in {33, 35, 36, 38, 39, 40} /\ l >= 3
    \/ t = 37 /\ 3 <= l /\ l <= 8
    \/ t = 41 /\ l = 6
    \/ t = 42 /\ l \in {6, 8, 10}
    \/ t = 43 /\ l \in {4, 6}
    \/ t = 44 /\ l = 6
    \/ t >= 128

C1_Expected(t, b, budget) ==
    LET l == IF t < 32 THEN 1 ELSE b
    IN  IF /\ (t >= 32 => b >= 2)
           /\ l <= budget
           /\ C1_TypeRule(t, b)
        THEN l
        ELSE 0

\* C1: with the option's bytes captured, dccp_print_option returns the
\* effective option_length (1 for types below 32, the length byte otherwise)
\* exactly when the length byte is at least 2 for types >= 32, the length is
\* within the remaining budget and the per-type length rule holds; otherwise
\* it returns 0.
C1_OptionReturn ==
    (pc = "opt_ret" /\ caplen >= hlen) =>
        optlen = C1_Expected(option, optbyte, hlen)

\* A Timestamp option of length 6 inside the budget was decoded and 6 returned.
C1_Witness ==
    /\ pc = "opt_ret" /\ caplen >= hlen
    /\ option = 41 /\ optbyte = 6 /\ hlen >= 6
    /\ optlen = 6

\* C9 (as claimed): every byte a call of dccp_print_option reads is at an
\* offset below the remaining budget hlen, on failing calls too, also when
\* the last remaining byte holds an option type >= 32.
C9_ReadsInsideBudget ==
    pc = "opt_ret" => readHi <= hlen

\* C6: dccp_csum_coverage returns len when CsCov is 0 and
\* min(len, (data_offset + CsCov - 1) * 4) otherwise, computed without
\* wrapping, so the coverage never exceeds the claimed length.
C6_Coverage ==
    pc = "cov_ret" =>
        /\ cov = IF cscov = 0 THEN length
                 ELSE Min(length, (doff + cscov - 1) * 4)
        /\ cov <= length
        /\ cov >= 0

\* A partial coverage below the claimed length was returned.
C6_Witness ==
    /\ pc = "cov_ret"
    /\ doff = 1 /\ cscov = 3 /\ length = 16
    /\ cov = 12

====
